---------------------------- MODULE Spec2Model ----------------------------
(***************************************************************************)
(* Member transfer between groups: the batch script (src/Xx.py, class      *)
(* MemberTransfer) and the conversational userbot (src/X.py, class         *)
(* UserbotMemberManager).  The two are separate programs with separate     *)
(* databases; `variant` says which one a behaviour is about.               *)
(*                                                                         *)
(* The messaging platform is the environment: the roster of the source     *)
(* group, the operator's role in the target group, and the outcome of      *)
(* every platform call are chosen nondeterministically.                    *)
(***************************************************************************)
EXTENDS Integers, Sequences, FiniteSets

\* ---------------------------------------------------------------- bounds
\* Longest roster of the source group.
MaxRoster == 2
\* Most runs (batch) or save and add commands (bot) that get as far as
\* writing to the database in one behaviour.
MaxCommands == 2
\* Most FloodWait signals the platform raises while a roster is collected.
MaxFloods == 1
\* Most clear_data commands in one behaviour.
MaxClears == 2

\* Length of the roster of the long runs, which pass the progress interval.
LongRoster == 6
MaxSessions == 12
MaxPerSecond == 2

\* Most rows the AUTOINCREMENT sequence of source_groups hands out.
MaxSources == 2
\* Rows save_actual_members collects before it flushes them to group_members.
\* The source flushes at 100 (X.py:275); the model scales the threshold so
\* that the bounded rosters cross it.
FlushEvery == 2

\* ------------------------------------------------------ program constants
\* Progress is written every 5th list position (Xx.py:127, X.py:326).
ProgressEvery == 5
\* SQL NULL of an integer column that an INSERT leaves out (X.py:261-264).
NULL == -1

VARIABLES
    variant,          \* "batch" (Xx.py) or "bot" (X.py)
    roster,           \* the source group's members, in the platform's order
    environ,          \* the credentials set in the process environment
    refused,          \* the latest command or callback of a user other than ADMIN_ID
    undo_outcome,     \* how the latest undo_clear since the latest clear ended
    sessions,         \* transfer_sessions as earlier runs of the script left it
    listing,          \* the rows the history command has fetched
    pc,               \* position of the transfer run (transfer_members / add_members_command)
    target_member,    \* result of get_chat_member(target, "me"); dead after the check
    pos,              \* how many roster entries the batch collector has consumed
    members,          \* the list the transfer loop iterates
    total_count,      \* Xx.py total_count
    index,            \* number of list positions the loop has left behind
    success_count,
    failed_count,     \* Xx.py failed_count
    session_id,       \* session_id / operation_id of the run; 0 = not assigned
    last_call,        \* the platform's record of the run's latest add_chat_members call
    added,            \* the users the run's add_chat_members calls have added
    ledger,           \* transfer_sessions (batch) / transfer_operations (bot)
    nextId,           \* next AUTOINCREMENT id of the ledger table
    \* ---- the bot's database (X.py setup_database)
    user_state,       \* the admin's row of user_states
    source_groups,
    nextSrcId,        \* next AUTOINCREMENT id of source_groups
    group_members,    \* rows in rowid order
    backup_source_groups,
    backup_group_members,
    backup_ops,       \* backup_transfer_operations
    timers,           \* pending delete_backup_after_delay tasks
    floods,           \* FloodWait signals raised during collection so far
    clears,           \* clear_data commands so far
    \* ---- inline buttons the admin has been shown
    menu_buttons,     \* the keyboard of the welcome message
    cancel_buttons,   \* operation ids with a cancel_save_/cancel_add_ button
    select_buttons,   \* source ids with a select_source_ button
    undo_button,      \* the "Undo Clear" button
    \* ---- save_members_command / save_actual_members in flight
    spc,
    spos,             \* roster entries the enumeration of this pass has consumed
    batch,
    saved_count,
    save_op,          \* operation_id of the current pass
    save_db,          \* source_group_db_id
    add_src,          \* source_db_id of add_members_command
    member_count      \* member_count of add_members_command, read from the source's row

dbVars == <<user_state, source_groups, nextSrcId, group_members,
            backup_source_groups, backup_group_members, backup_ops, timers,
            floods, clears>>
uiVars == <<menu_buttons, cancel_buttons, select_buttons, undo_button>>
saveVars == <<spc, spos, batch, saved_count, save_op, save_db>>
botVars == <<dbVars, uiVars, saveVars, add_src, member_count>>
histVars == <<sessions, listing>>

vars == <<variant, roster, environ, histVars, refused, undo_outcome, pc, target_member, pos, members, total_count, index,
          success_count, failed_count, session_id, last_call, added, ledger, nextId, botVars>>

\* ------------------------------------------------------------ environment
Kinds == {"human", "bot", "deleted", "self"}

\* A roster entry: member.user of the platform.
User(i, k) ==
    [id |-> i, is_bot |-> (k = "bot"), is_deleted |-> (k = "deleted"),
     is_self |-> (k = "self")]

\* The rosters considered: ids 1..n in enumeration order, at most one entry
\* being the operator's own account.
Rosters ==
    { r \in UNION { [1..n -> {User(i, k) : i \in 1..MaxRoster, k \in Kinds}]
                    : n \in 0..MaxRoster } :
        /\ \A i \in DOMAIN r : r[i].id = i
        /\ Cardinality({i \in DOMAIN r : r[i].is_self}) <= 1 }

MemberStatuses == {"creator", "administrator", "member"}
NoMember == [status |-> "none", can_invite |-> FALSE]

\* Outcomes of add_chat_members: it returns, or raises FloodWait, the
\* privacy restriction of the user (UserPrivacyRestricted) or another error.
AddResults == {"ok", "flood", "privacy", "error"}
\* The outcomes that `except Exception` catches (Xx.py:149, X.py:355).
Raises(res) == res \in {"privacy", "error"}
\* No add_chat_members call yet in this run.
NoCall == [at |-> 0, user |-> 0, result |-> "none"]

\* Every command that writes INSERTs one ledger row, and so does every
\* restart of the collection after a FloodWait.
CommandsSoFar == nextId - 1 - floods

\* The two credentials read from the environment (Xx.py:227, X.py:680-681).
Credentials == {"API_ID", "API_HASH"}

\* Whether the iteration sleeps before the loop goes on, by the outcome of
\* its add_chat_members call: the random delay after a success (Xx.py:138-140,
\* X.py:345-346) and the countdown of the FloodWait handler (Xx.py:144-146,
\* X.py:348-353); the handler of any other error goes on at once
\* (Xx.py:149-152, X.py:355-358).
SleepsAfter(res) == res \in {"ok", "flood"}

\* ------------------------------------------------------------ the ledger
Row(id, total, transferred, status) ==
    [id |-> id, total_members |-> total, transferred |-> transferred,
     status |-> status, completed_at |-> FALSE]

\* A ROWID without AUTOINCREMENT: one more than the largest id in the table.
ReusedRowId ==
    IF ledger = {} THEN 1
    ELSE (CHOOSE i \in {r.id : r \in ledger} :
            \A j \in {r.id : r \in ledger} : j <= i) + 1

\* cursor.lastrowid of an INSERT into the ledger, whose id column is
\* INTEGER PRIMARY KEY AUTOINCREMENT (Xx.py:38, X.py:80): ids are never reused.
NewRowId == nextId

\* An UPDATE of the progress that writes total_members as well.
SetTransferredAndTotal(t, i, n) ==
    { IF r.id = i THEN [r EXCEPT !.transferred = n, !.total_members = n]
                  ELSE r : r \in t }

\* UPDATE ... SET transferred = n WHERE id = i
SetTransferred(t, i, n) ==
    { IF r.id = i THEN [r EXCEPT !.transferred = n] ELSE r : r \in t }

\* UPDATE ... SET status = s WHERE id = i
SetStatus(t, i, s) ==
    { IF r.id = i THEN [r EXCEPT !.status = s] ELSE r : r \in t }

\* UPDATE ... SET status = s, transferred = n, completed_at = CURRENT_TIMESTAMP WHERE id = i
Finalize(t, i, s, n) ==
    { IF r.id = i
        THEN [r EXCEPT !.status = s, !.transferred = n, !.completed_at = TRUE]
        ELSE r : r \in t }

\* ------------------------------------------------- batch: transfer_members
\* The target check of both variants: status in ["creator", "administrator"].
IsAdmin(m) == m.status \in {"creator", "administrator"}

\* Xx.py:93 - the collector's filter.
BatchKeeps(u) == ~u.is_bot /\ ~u.is_deleted

\* The check made only after the session row was INSERTed.
DenyAfterInsert ==
    /\ pc' = "denied"
    /\ ledger' = ledger \cup {Row(NewRowId, Len(members), 0, "started")}
    /\ nextId' = nextId + 1
    /\ UNCHANGED <<pos, members, total_count, index, success_count,
                   failed_count, session_id, last_call, added>>

\* The `return` of a failed check: nothing but the position changes.
Deny ==
    /\ pc' = "denied"
    /\ UNCHANGED <<pos, members, total_count, index, success_count,
                   failed_count, session_id, last_call, added, ledger, nextId>>

\* The locals of a run that has just been entered.
FreshRun ==
    /\ pos' = 0 /\ members' = <<>> /\ total_count' = 0
    /\ index' = 0 /\ success_count' = 0 /\ failed_count' = 0
    /\ session_id' = 0 /\ last_call' = NoCall /\ added' = {}

\* Where a run has ended and a new one may be entered.
BatchEnded == {"start", "no_source", "no_target", "denied", "collect_failed",
               "empty", "completed", "aborted"}

\* Xx.py:57-84 - a new process enters transfer_members: get_chat on the
\* source, get_chat on the target, get_chat_member(target, "me").
BatchVerify ==
    /\ variant = "batch"
    /\ pc \in BatchEnded
    /\ CommandsSoFar < MaxCommands
    /\ \E src_ok, tgt_ok \in BOOLEAN, st \in MemberStatuses, flag \in BOOLEAN :
         /\ pc' = IF ~src_ok THEN "no_source"
                  ELSE IF ~tgt_ok THEN "no_target" ELSE "checking"
         /\ target_member' = IF src_ok /\ tgt_ok
                               THEN [status |-> st, can_invite |-> flag]
                               ELSE NoMember
    /\ FreshRun
    /\ UNCHANGED <<variant, roster, environ, histVars, refused, undo_outcome, ledger, nextId, botVars>>

\* Xx.py:78-80 - the admin check on the answer of get_chat_member.
BatchCheck ==
    /\ variant = "batch"
    /\ pc = "checking"
    /\ IF IsAdmin(target_member)
         THEN /\ pc' = "collect"
              /\ UNCHANGED <<pos, members, total_count, index, success_count,
                             failed_count, session_id, last_call, added, ledger, nextId>>
         ELSE Deny
    /\ target_member' = NoMember
    /\ UNCHANGED <<variant, roster, environ, histVars, refused, undo_outcome, botVars>>

\* Xx.py:91-95 - one turn of `async for member in app.get_chat_members`.
BatchCollect ==
    /\ variant = "batch"
    /\ pc = "collect"
    /\ pos < Len(roster)
    /\ pos' = pos + 1
    /\ IF BatchKeeps(roster[pos + 1])
         THEN /\ members' = Append(members, roster[pos + 1].id)
              /\ total_count' = total_count + 1
         ELSE UNCHANGED <<members, total_count>>
    /\ UNCHANGED <<botVars, variant, roster, environ, histVars, refused, undo_outcome, pc, target_member, index, success_count,
                   failed_count, session_id, last_call, added, ledger, nextId>>

\* The enumeration raises: the outer handler (Xx.py:166-168) logs and the run ends.
BatchCollectFails ==
    /\ variant = "batch"
    /\ pc = "collect"
    /\ pc' = "collect_failed"
    /\ UNCHANGED <<botVars, variant, roster, environ, histVars, refused, undo_outcome, target_member, pos, members, total_count,
                   index, success_count, failed_count, session_id, last_call, added,
                   ledger, nextId>>

\* Xx.py:103-114 - the end of the enumeration: return on an empty list, else
\* INSERT the session row.
BatchStartSession ==
    /\ variant = "batch"
    /\ pc = "collect"
    /\ pos = Len(roster)
    /\ IF total_count = 0
         THEN /\ pc' = "empty"
              /\ UNCHANGED <<session_id, ledger, nextId>>
         ELSE /\ pc' = "loop"
              /\ ledger' = ledger \cup {Row(NewRowId, total_count, 0, "started")}
              /\ session_id' = NewRowId
              /\ nextId' = nextId + 1
    /\ UNCHANGED <<botVars, variant, roster, environ, histVars, refused, undo_outcome, target_member, pos, members, total_count,
                   index, success_count, failed_count, last_call,
                   added>>

\* Xx.py:127 - whether the iteration at list position i (0-based) writes progress.
ProgressDue(i, total) == (i + 1) % ProgressEvery = 0 \/ (i + 1) = total

\* The loop going through the list from its end.
BatchAttemptFromEnd ==
    /\ variant = "batch"
    /\ pc = "loop"
    /\ index < Len(members)
    /\ \E res \in AddResults :
         /\ last_call' = [at |-> index, user |-> members[Len(members) - index],
                          result |-> res]
         /\ added' = IF res = "ok" THEN added \cup {members[Len(members) - index]}
                                   ELSE added
         /\ CASE res = "ok" ->
                   /\ success_count' = success_count + 1
                   /\ ledger' = IF ProgressDue(index, total_count)
                                  THEN SetTransferred(ledger, session_id,
                                                      success_count + 1)
                                  ELSE ledger
                   /\ UNCHANGED failed_count
              [] res = "flood" ->
                   UNCHANGED <<success_count, failed_count, ledger>>
              [] Raises(res) ->
                   /\ failed_count' = failed_count + 1
                   /\ UNCHANGED <<success_count, ledger>>
    /\ index' = index + 1
    /\ UNCHANGED <<botVars, variant, roster, environ, histVars, refused, undo_outcome, pc, target_member, pos, members,
                   total_count, session_id, nextId>>

\* The loop with a FloodWait handler that starts the count of successes anew.
BatchAttemptFloodResets ==
    /\ variant = "batch"
    /\ pc = "loop"
    /\ index < Len(members)
    /\ \E res \in AddResults :
         /\ last_call' = [at |-> index, user |-> members[index + 1],
                          result |-> res]
         /\ added' = IF res = "ok" THEN added \cup {members[index + 1]}
                                   ELSE added
         /\ CASE res = "ok" ->
                   /\ success_count' = success_count + 1
                   /\ ledger' = IF ProgressDue(index, total_count)
                                  THEN SetTransferred(ledger, session_id,
                                                      success_count + 1)
                                  ELSE ledger
                   /\ UNCHANGED failed_count
              [] res = "flood" ->
                   /\ success_count' = 0
                   /\ UNCHANGED <<failed_count, ledger>>
              [] Raises(res) ->
                   /\ failed_count' = failed_count + 1
                   /\ UNCHANGED <<success_count, ledger>>
    /\ index' = index + 1
    /\ UNCHANGED <<botVars, variant, roster, environ, histVars, refused, undo_outcome, pc, target_member, pos, members,
                   total_count, session_id, nextId>>

\* Xx.py:121-152 - one iteration of `for index, user_id in enumerate(members)`.
\* Every branch ends the iteration: `continue` in a for loop moves on to the
\* next element.
BatchAttempt ==
    /\ variant = "batch"
    /\ pc = "loop"
    /\ index < Len(members)
    /\ \E res \in AddResults :
         /\ last_call' = [at |-> index, user |-> members[index + 1],
                          result |-> res]
         /\ added' = IF res = "ok" THEN added \cup {members[index + 1]}
                                   ELSE added
         /\ CASE res = "ok" ->
                   /\ success_count' = success_count + 1
                   /\ ledger' = IF ProgressDue(index, total_count)
                                  THEN SetTransferred(ledger, session_id,
                                                      success_count + 1)
                                  ELSE ledger
                   /\ UNCHANGED failed_count
              [] res = "flood" ->
                   UNCHANGED <<success_count, failed_count, ledger>>
              [] Raises(res) ->
                   /\ failed_count' = failed_count + 1
                   /\ UNCHANGED <<success_count, ledger>>
    /\ index' = index + 1
    /\ UNCHANGED <<botVars, variant, roster, environ, histVars, refused, undo_outcome, pc, target_member, pos, members,
                   total_count, session_id, nextId>>

\* Xx.py:154-159 - complete the session.
BatchComplete ==
    /\ variant = "batch"
    /\ pc = "loop"
    /\ index = Len(members)
    /\ pc' = "completed"
    /\ ledger' = Finalize(ledger, session_id, "completed", success_count)
    /\ UNCHANGED <<botVars, variant, roster, environ, histVars, refused, undo_outcome, target_member, pos, members, total_count,
                   index, success_count, failed_count, session_id, last_call, added, nextId>>

\* The completing UPDATE raises (sqlite3.Error): the outer handler
\* (Xx.py:166-168) logs the error and writes nothing.
BatchCompleteRaises ==
    /\ variant = "batch"
    /\ pc = "loop"
    /\ index = Len(members)
    /\ pc' = "aborted"
    /\ UNCHANGED <<botVars, variant, roster, environ, histVars, refused, undo_outcome, target_member, pos, members, total_count,
                   index, success_count, failed_count, session_id, last_call, added,
                   ledger, nextId>>

BatchNext ==
    \/ BatchVerify
    \/ BatchCheck
    \/ BatchCollect
    \/ BatchCollectFails
    \/ BatchStartSession
    \/ BatchAttempt
    \/ BatchComplete
    \/ BatchCompleteRaises

\* ---------------------------------------------------- bot: the admin's menu
NoState == [state |-> "none", source_id |-> 0]

runVars == <<pc, target_member, pos, members, total_count, index,
             success_count, failed_count, session_id, last_call, added, add_src, member_count>>
tableVars == <<source_groups, nextSrcId, group_members, backup_source_groups,
               backup_group_members, backup_ops, timers, floods, clears>>

\* The operator works through the menu one command at a time: menu commands
\* and new save or add commands are sent while no save and no add command is
\* in flight.  The callbacks on a running operation (cancel_save_, cancel_add_),
\* clear_data and undo_clear arrive at any time.
SaveEnded == {"idle", "no_access", "done"}
BotEnded == {"start", "ignored", "invalid_source", "no_members", "no_target",
             "denied", "completed", "aborted"}
Quiet == spc \in SaveEnded /\ pc \in BotEnded

\* X.py:142-149 - start_command: INSERT OR REPLACE (user_id, state).
StartCommand ==
    /\ variant = "bot"
    /\ Quiet
    /\ user_state' = [state |-> "start", source_id |-> 0]
    /\ menu_buttons' = TRUE
    /\ UNCHANGED <<variant, roster, environ, histVars, refused, undo_outcome, runVars, ledger, nextId, tableVars,
                   cancel_buttons, select_buttons, undo_button, saveVars>>

\* X.py:752-771 - the callbacks start_save_members and start_add_members.
\* INSERT OR REPLACE names no source_id: the column becomes NULL.
CbStartSave ==
    /\ variant = "bot"
    /\ Quiet
    /\ menu_buttons
    /\ user_state' = [state |-> "awaiting_source", source_id |-> 0]
    /\ UNCHANGED <<variant, roster, environ, histVars, refused, undo_outcome, runVars, ledger, nextId, tableVars,
                   uiVars, saveVars>>

CbStartAdd ==
    /\ variant = "bot"
    /\ Quiet
    /\ menu_buttons
    /\ user_state' = [state |-> "awaiting_target", source_id |-> 0]
    /\ UNCHANGED <<variant, roster, environ, histVars, refused, undo_outcome, runVars, ledger, nextId, tableVars,
                   uiVars, saveVars>>

\* X.py:785-795 - the callback select_source_<id>.
CbSelectSource ==
    /\ variant = "bot"
    /\ Quiet
    /\ \E id \in select_buttons :
         user_state' = [state |-> "awaiting_target", source_id |-> id]
    /\ UNCHANGED <<variant, roster, environ, histVars, refused, undo_outcome, runVars, ledger, nextId, tableVars,
                   uiVars, saveVars>>

\* X.py:796-799 - the callback cancel, a button of the source list.
CbCancel ==
    /\ variant = "bot"
    /\ Quiet
    /\ select_buttons # {}
    /\ user_state # NoState
    /\ user_state' = NoState
    /\ UNCHANGED <<variant, roster, environ, histVars, refused, undo_outcome, runVars, ledger, nextId, tableVars,
                   uiVars, saveVars>>

\* A cancel callback that also ends the running loop of the operation.
CbCancelStopsLoop ==
    /\ variant = "bot"
    /\ \E id \in cancel_buttons :
         /\ ledger' = SetStatus(ledger, id, "cancelled")
         /\ pc' = IF pc = "loop" /\ id = session_id THEN "aborted" ELSE pc
         /\ spc' = IF spc = "collect" /\ id = save_op THEN "saved" ELSE spc
    /\ UNCHANGED <<variant, roster, environ, histVars, refused, undo_outcome, target_member, pos, members, total_count,
                   index, success_count, failed_count, session_id, last_call,
                   added, add_src, member_count, nextId, user_state, tableVars, uiVars,
                   spos, batch, saved_count, save_op, save_db>>

\* X.py:800-809 - the callbacks cancel_save_<id> and cancel_add_<id>.
CbCancelOperation ==
    /\ variant = "bot"
    /\ \E id \in cancel_buttons : ledger' = SetStatus(ledger, id, "cancelled")
    /\ UNCHANGED <<variant, roster, environ, histVars, refused, undo_outcome, runVars, nextId, user_state, tableVars,
                   uiVars, saveVars>>

\* ------------------------------------------ bot: save_members_command
\* X.py:275 divides the flush threshold by two for the progress message
\* (saved_count % 50 at a threshold of 100).
SaveProgressEvery == IF FlushEvery \div 2 = 0 THEN 1 ELSE FlushEvery \div 2

\* X.py:261-266 - save_actual_members enters: INSERT the "saving" row.
SavingRow(id) == Row(id, 0, NULL, "saving")

\* The command resetting the source's rows before it has resolved the group.
SaveResetsUnresolved ==
    /\ variant = "bot"
    /\ Quiet
    /\ user_state.state = "awaiting_source"
    /\ CommandsSoFar < MaxCommands
    /\ group_members' = <<>>
    /\ \E ok \in BOOLEAN :
         IF ~ok \/ source_groups # {}
           THEN /\ spc' = IF ok THEN "begun" ELSE "no_access"
                /\ source_groups' =
                     {[g EXCEPT !.member_count = 0] : g \in source_groups}
                /\ save_db' = IF ok THEN (CHOOSE g \in source_groups : TRUE).id
                                    ELSE save_db
                /\ UNCHANGED nextSrcId
           ELSE /\ spc' = "begun"
                /\ nextSrcId <= MaxSources
                /\ source_groups' = {[id |-> nextSrcId, member_count |-> 0]}
                /\ save_db' = nextSrcId
                /\ nextSrcId' = nextSrcId + 1
    /\ UNCHANGED <<variant, roster, environ, histVars, refused, undo_outcome, runVars, ledger, nextId, user_state,
                   backup_source_groups, backup_group_members, backup_ops,
                   timers, floods, clears, uiVars, spos, batch, saved_count, save_op>>

\* X.py:162-226 - the command up to its first commit: resolve the group,
\* then reset the source's rows or INSERT the source.  The one source group
\* of the model has one group_id, UNIQUE in source_groups.
SaveBegin ==
    /\ variant = "bot"
    /\ Quiet
    /\ user_state.state = "awaiting_source"
    /\ CommandsSoFar < MaxCommands
    /\ \E ok \in BOOLEAN :
         IF ~ok
           THEN /\ spc' = "no_access"
                /\ UNCHANGED <<source_groups, nextSrcId, group_members, save_db>>
           ELSE /\ spc' = "begun"
                /\ IF source_groups # {}
                     THEN LET existing == CHOOSE g \in source_groups : TRUE IN
                          /\ group_members' =
                               SelectSeq(group_members,
                                         LAMBDA m : m.source # existing.id)
                          /\ source_groups' =
                               {[g EXCEPT !.member_count = 0] : g \in source_groups}
                          /\ save_db' = existing.id
                          /\ UNCHANGED nextSrcId
                     ELSE /\ nextSrcId <= MaxSources
                          /\ source_groups' = {[id |-> nextSrcId, member_count |-> 0]}
                          /\ save_db' = nextSrcId
                          /\ nextSrcId' = nextSrcId + 1
                          /\ UNCHANGED group_members
    /\ UNCHANGED <<variant, roster, environ, histVars, refused, undo_outcome, runVars, ledger, nextId, user_state,
                   backup_source_groups, backup_group_members, backup_ops,
                   timers, floods, clears, uiVars, spos, batch, saved_count, save_op>>

\* X.py:256-266 - save_actual_members is entered.
SaveEnter ==
    /\ variant = "bot"
    /\ spc = "begun"
    /\ ledger' = ledger \cup {SavingRow(NewRowId)}
    /\ save_op' = NewRowId
    /\ nextId' = nextId + 1
    /\ spos' = 0 /\ batch' = <<>> /\ saved_count' = 0
    /\ spc' = "collect"
    /\ UNCHANGED <<variant, roster, environ, histVars, refused, undo_outcome, runVars, user_state, tableVars, uiVars,
                   save_db>>

\* X.py:271 - the collector's filter.
SaveKeeps(u) == ~u.is_bot

\* X.py:269-292 - one turn of `async for member in client.get_chat_members`.
SaveCollect ==
    /\ variant = "bot"
    /\ spc = "collect"
    /\ spos < Len(roster)
    /\ spos' = spos + 1
    /\ LET u == roster[spos + 1]
           full == Append(batch, [source |-> save_db, user |-> u.id]) IN
       IF ~SaveKeeps(u)
         THEN UNCHANGED <<batch, saved_count, group_members, cancel_buttons>>
         ELSE /\ saved_count' = saved_count + 1
              /\ IF Len(full) >= FlushEvery
                   THEN /\ group_members' = group_members \o full
                        /\ batch' = <<>>
                        /\ cancel_buttons' =
                             IF (saved_count + 1) % SaveProgressEvery = 0
                               THEN cancel_buttons \cup {save_op}
                               ELSE cancel_buttons
                   ELSE /\ batch' = full
                        /\ UNCHANGED <<group_members, cancel_buttons>>
    /\ UNCHANGED <<variant, roster, environ, histVars, refused, undo_outcome, runVars, ledger, nextId, user_state,
                   source_groups, nextSrcId, backup_source_groups,
                   backup_group_members, backup_ops, timers, floods, clears,
                   menu_buttons, select_buttons, undo_button, spc, save_op, save_db>>

\* X.py:304-308, 258-266 - the enumeration raises FloodWait: after the wait
\* save_actual_members calls itself, which INSERTs a new "saving" row and
\* starts over with an empty batch.
SaveFlood ==
    /\ variant = "bot"
    /\ spc = "collect"
    /\ floods < MaxFloods
    /\ floods' = floods + 1
    /\ ledger' = ledger \cup {SavingRow(NewRowId)}
    /\ save_op' = NewRowId
    /\ nextId' = nextId + 1
    /\ spos' = 0 /\ batch' = <<>> /\ saved_count' = 0
    /\ UNCHANGED <<variant, roster, environ, histVars, refused, undo_outcome, runVars, user_state, source_groups,
                   nextSrcId, group_members, backup_source_groups,
                   backup_group_members, backup_ops, timers, clears, uiVars,
                   spc, save_db>>

\* UPDATE source_groups SET member_count = n WHERE id = i
SetMemberCount(t, i, n) ==
    { IF g.id = i THEN [g EXCEPT !.member_count = n] ELSE g : g \in t }

\* UPDATE transfer_operations SET status = s, members_transferred = n WHERE id = i
SetSaved(t, i, s, n) ==
    { IF r.id = i THEN [r EXCEPT !.status = s, !.transferred = n] ELSE r
      : r \in t }

\* X.py:293-303, 315, 232-233 - the enumeration is exhausted: flush the rest,
\* mark the operation completed, return, write member_count.
SaveFinish ==
    /\ variant = "bot"
    /\ spc = "collect"
    /\ spos = Len(roster)
    /\ group_members' = group_members \o batch
    /\ ledger' = SetSaved(ledger, save_op, "completed", saved_count)
    /\ source_groups' = SetMemberCount(source_groups, save_db, saved_count)
    /\ spc' = "saved"
    /\ UNCHANGED <<variant, roster, environ, histVars, refused, undo_outcome, runVars, nextId, user_state, nextSrcId,
                   backup_source_groups, backup_group_members, backup_ops,
                   timers, floods, clears, uiVars, spos, batch, saved_count, save_op, save_db>>

\* X.py:309-311 - the enumeration raises another error: mark the operation failed.
SaveError ==
    /\ variant = "bot"
    /\ spc = "collect"
    /\ ledger' = SetStatus(ledger, save_op, "failed")
    /\ spc' = "erred"
    /\ UNCHANGED <<variant, roster, environ, histVars, refused, undo_outcome, runVars, nextId, user_state, tableVars,
                   uiVars, spos, batch, saved_count, save_op, save_db>>

\* X.py:313-315, 232-233 - after notify_admin save_actual_members returns
\* saved_count and the command writes it to member_count.
SaveErrorReturn ==
    /\ variant = "bot"
    /\ spc = "erred"
    /\ source_groups' = SetMemberCount(source_groups, save_db, saved_count)
    /\ spc' = "saved"
    /\ UNCHANGED <<variant, roster, environ, histVars, refused, undo_outcome, runVars, ledger, nextId, user_state,
                   nextSrcId, group_members, backup_source_groups,
                   backup_group_members, backup_ops, timers, floods, clears,
                   uiVars, spos,
                   batch, saved_count, save_op, save_db>>

\* X.py:235-249 - the success message, then the state source_saved.
SaveSetState ==
    /\ variant = "bot"
    /\ spc = "saved"
    /\ user_state' = [state |-> "source_saved", source_id |-> save_db]
    /\ spc' = "done"
    /\ UNCHANGED <<variant, roster, environ, histVars, refused, undo_outcome, runVars, ledger, nextId, tableVars,
                   uiVars, spos, batch, saved_count, save_op, save_db>>

\* ------------------------------------------- bot: add_members_command
\* X.py:368-379 - `.add_members` with no argument outside awaiting_target:
\* the saved sources are offered as buttons.
AddList ==
    /\ variant = "bot"
    /\ Quiet
    /\ user_state.state # "awaiting_target"
    /\ source_groups # {}
    /\ select_buttons' = select_buttons \cup {g.id : g \in source_groups}
    /\ UNCHANGED <<variant, roster, environ, histVars, refused, undo_outcome, runVars, ledger, nextId, user_state,
                   tableVars, menu_buttons, cancel_buttons, undo_button,
                   saveVars>>

\* X.py:368-381 - `.add_members <target>` in any state other than
\* awaiting_target: with an argument the source list is skipped, the block
\* under `state[0] == "awaiting_target"` is skipped, and the handler returns
\* without a reply.
AddIgnored ==
    /\ variant = "bot"
    /\ Quiet
    /\ user_state.state # "awaiting_target"
    /\ pc' = "ignored"
    /\ target_member' = NoMember
    /\ FreshRun
    /\ UNCHANGED <<variant, roster, environ, histVars, refused, undo_outcome, add_src, member_count, ledger,
                   nextId, dbVars, uiVars, saveVars>>

\* X.py:381-404 - `.add_members <target>` in state awaiting_target: read the
\* source's row.
AddPrepare ==
    /\ variant = "bot"
    /\ Quiet
    /\ user_state.state = "awaiting_target"
    /\ CommandsSoFar < MaxCommands
    /\ LET source_data == {g \in source_groups : g.id = user_state.source_id} IN
       /\ pc' = IF source_data = {} THEN "invalid_source"
                ELSE IF \E g \in source_data : g.member_count = 0 THEN "no_members"
                ELSE "prepared"
       /\ member_count' = IF source_data = {} THEN 0
                          ELSE (CHOOSE g \in source_data : TRUE).member_count
    /\ add_src' = user_state.source_id
    /\ target_member' = NoMember
    /\ FreshRun
    /\ UNCHANGED <<variant, roster, environ, histVars, refused, undo_outcome, ledger, nextId, dbVars, uiVars, saveVars>>

\* X.py:407-426 - get_chat on the target, then get_chat_member(target, "me").
\* tgt_ok is false when either call raises or the chat is no group: the
\* command reports it and returns.
AddVerify ==
    /\ variant = "bot"
    /\ pc = "prepared"
    /\ \E tgt_ok \in BOOLEAN, st \in MemberStatuses, flag \in BOOLEAN :
         /\ pc' = IF tgt_ok THEN "checking" ELSE "no_target"
         /\ target_member' = IF tgt_ok THEN [status |-> st, can_invite |-> flag]
                                         ELSE NoMember
    /\ UNCHANGED <<variant, roster, environ, histVars, refused, undo_outcome, pos, members, total_count, index,
                   success_count, failed_count, session_id, last_call, added, add_src, member_count,
                   ledger, nextId, dbVars, uiVars, saveVars>>

\* SELECT user_id ... FROM group_members WHERE source_group_id = src
MembersOf(src) ==
    LET rows == SelectSeq(group_members, LAMBDA m : m.source = src) IN
    [i \in 1..Len(rows) |-> rows[i].user]

\* X.py:420-439 - the admin check, then the member list is read and the
\* operation row INSERTed.
AddStart ==
    /\ variant = "bot"
    /\ pc = "checking"
    /\ IF IsAdmin(target_member)
         THEN /\ pc' = "loop"
              /\ members' = MembersOf(add_src)
              /\ ledger' = ledger \cup
                   {Row(NewRowId, Len(MembersOf(add_src)), 0, "started")}
              /\ session_id' = NewRowId
              /\ nextId' = nextId + 1
              /\ UNCHANGED <<pos, total_count, index, success_count,
                             failed_count, last_call, added>>
         ELSE Deny
    /\ target_member' = NoMember
    /\ UNCHANGED <<variant, roster, environ, histVars, refused, undo_outcome, add_src, member_count, dbVars, uiVars, saveVars>>

\* X.py:322-358 - one iteration of the loop of add_members_to_target.  A
\* failed add is reported with notify_admin, which is a platform call of its
\* own: when it raises, the error leaves the loop and reaches the handler of
\* add_members_command (X.py:465-470), which marks the operation failed.
BotAttempt ==
    /\ variant = "bot"
    /\ pc = "loop"
    /\ index < Len(members)
    /\ \E res \in AddResults, notified \in BOOLEAN :
         /\ ~Raises(res) => notified
         /\ last_call' = [at |-> index, user |-> members[index + 1],
                          result |-> res]
         /\ added' = IF res = "ok" THEN added \cup {members[index + 1]}
                                   ELSE added
         /\ CASE res = "ok" ->
                   /\ success_count' = success_count + 1
                   /\ cancel_buttons' =
                        IF ProgressDue(index, Len(members))
                          THEN cancel_buttons \cup {session_id}
                          ELSE cancel_buttons
                   /\ ledger' = SetTransferred(ledger, session_id,
                                               success_count + 1)
                   /\ index' = index + 1
                   /\ UNCHANGED pc
              [] res = "flood" ->
                   /\ index' = index + 1
                   /\ UNCHANGED <<success_count, cancel_buttons, ledger, pc>>
              [] Raises(res) /\ notified ->
                   /\ index' = index + 1
                   /\ UNCHANGED <<success_count, cancel_buttons, ledger, pc>>
              [] Raises(res) /\ ~notified ->
                   /\ pc' = "aborted"
                   /\ ledger' = SetStatus(ledger, session_id, "failed")
                   /\ UNCHANGED <<success_count, cancel_buttons, index>>
    /\ UNCHANGED <<variant, roster, environ, histVars, refused, undo_outcome, target_member, pos, members, total_count,
                   failed_count, session_id, add_src, member_count, nextId, dbVars,
                   menu_buttons, select_buttons, undo_button, saveVars>>

\* X.py:441-449 - add_members_to_target has returned: complete the operation.
BotComplete ==
    /\ variant = "bot"
    /\ pc = "loop"
    /\ index = Len(members)
    /\ ledger' = Finalize(ledger, session_id, "completed", success_count)
    /\ pc' = "reporting"
    /\ UNCHANGED <<variant, roster, environ, histVars, refused, undo_outcome, target_member, pos, members, total_count,
                   index, success_count, failed_count, session_id, last_call, added,
                   add_src, member_count, nextId, dbVars, uiVars, saveVars>>

\* X.py:451-473 - the closing message, then the admin's state is deleted.
\* When edit_text raises, the handler marks the operation failed.
BotReport ==
    /\ variant = "bot"
    /\ pc = "reporting"
    /\ \E sent \in BOOLEAN :
         IF sent
           THEN /\ pc' = "completed"
                /\ user_state' = NoState
                /\ UNCHANGED ledger
           ELSE /\ pc' = "aborted"
                /\ ledger' = SetStatus(ledger, session_id, "failed")
                /\ UNCHANGED user_state
    /\ UNCHANGED <<variant, roster, environ, histVars, refused, undo_outcome, target_member, pos, members, total_count,
                   index, success_count, failed_count, session_id, last_call, added,
                   add_src, member_count, nextId, tableVars, uiVars, saveVars>>

\* ------------------------------------------------ bot: clear with undo
\* X.py:623-645 - clear_data_command.
ClearData ==
    /\ variant = "bot"
    /\ clears < MaxClears
    /\ clears' = clears + 1
    /\ backup_source_groups' = source_groups
    /\ backup_group_members' = group_members
    /\ backup_ops' = ledger
    /\ source_groups' = {}
    /\ group_members' = <<>>
    /\ ledger' = {}
    /\ undo_button' = TRUE
    /\ timers' = timers + 1
    /\ undo_outcome' = "none"
    /\ UNCHANGED <<variant, roster, environ, histVars, refused, runVars, nextId, user_state, nextSrcId,
                   floods, menu_buttons, cancel_buttons, select_buttons,
                   saveVars>>

\* X.py:647-654 - delete_backup_after_delay, once its sleep is over.
ExpireBackup ==
    /\ variant = "bot"
    /\ timers > 0
    /\ backup_source_groups' = {}
    /\ backup_group_members' = <<>>
    /\ backup_ops' = {}
    /\ timers' = timers - 1
    /\ UNCHANGED <<variant, roster, environ, histVars, refused, undo_outcome, runVars, ledger, nextId, user_state,
                   source_groups, nextSrcId, group_members, floods, clears,
                   uiVars, saveVars>>

\* X.py:659, 50-56 - the first INSERT of undo_clear raises when source_groups
\* holds a row whose UNIQUE group_id is also in the backup.  The one source
\* group of the model has one group_id.
UndoRaises == backup_source_groups # {} /\ source_groups # {}

\* X.py:659-667 - what an undo_clear that does not raise leaves as the
\* outcome: "restored" once its INSERTs have found rows in the backup.
UndoOutcome ==
    IF <<backup_source_groups, backup_group_members, backup_ops>> # <<{}, <<>>, {}>>
      THEN "restored" ELSE undo_outcome

\* An undo that leaves out the INSERT into group_members.
UndoForgetsMembers ==
    /\ variant = "bot"
    /\ undo_button
    /\ IF UndoRaises
         THEN /\ undo_outcome' = "raised"
              /\ UNCHANGED <<source_groups, group_members, ledger,
                             backup_source_groups, backup_group_members, backup_ops>>
         ELSE /\ source_groups' = source_groups \cup backup_source_groups
              /\ ledger' = ledger \cup backup_ops
              /\ backup_source_groups' = {}
              /\ backup_group_members' = <<>>
              /\ backup_ops' = {}
              /\ undo_outcome' = UndoOutcome
              /\ UNCHANGED group_members
    /\ UNCHANGED <<variant, roster, environ, histVars, refused, runVars, nextId, user_state, nextSrcId,
                   timers, floods, clears, uiVars, saveVars>>

\* An undo that leaves the rows of backup_group_members where they are.
UndoKeepsMemberBackup ==
    /\ variant = "bot"
    /\ undo_button
    /\ IF UndoRaises
         THEN /\ undo_outcome' = "raised"
              /\ UNCHANGED <<source_groups, group_members, ledger,
                             backup_source_groups, backup_group_members, backup_ops>>
         ELSE /\ source_groups' = source_groups \cup backup_source_groups
              /\ group_members' = backup_group_members \o group_members
              /\ ledger' = ledger \cup backup_ops
              /\ backup_source_groups' = {}
              /\ backup_ops' = {}
              /\ undo_outcome' = UndoOutcome
              /\ UNCHANGED backup_group_members
    /\ UNCHANGED <<variant, roster, environ, histVars, refused, runVars, nextId, user_state, nextSrcId,
                   timers, floods, clears, uiVars, saveVars>>

\* INSERT INTO <table> SELECT * FROM <backup>, for the three tables: what
\* the tables t hold once the rows of the backups b are inserted.
Restored(t, b) == <<t[1] \cup b[1], b[2] \o t[2], t[3] \cup b[3]>>

\* X.py:657-666 - undo_clear.  When the first INSERT raises, the error
\* leaves the handler before anything is written or committed; otherwise
\* the three INSERTs are followed by the three DELETEs of the backup.
UndoClear ==
    /\ variant = "bot"
    /\ undo_button
    /\ IF UndoRaises
         THEN /\ undo_outcome' = "raised"
              /\ UNCHANGED <<source_groups, group_members, ledger,
                             backup_source_groups, backup_group_members, backup_ops>>
         ELSE /\ LET r == Restored(<<source_groups, group_members, ledger>>,
                                   <<backup_source_groups, backup_group_members,
                                     backup_ops>>) IN
                   /\ source_groups' = r[1]
                   /\ group_members' = r[2]
                   /\ ledger' = r[3]
              /\ backup_source_groups' = {}
              /\ backup_group_members' = <<>>
              /\ backup_ops' = {}
              /\ undo_outcome' = UndoOutcome
    /\ UNCHANGED <<variant, roster, environ, histVars, refused, runVars, nextId, user_state, nextSrcId,
                   timers, floods, clears, uiVars, saveVars>>

BotNext ==
    \/ StartCommand
    \/ CbStartSave
    \/ CbStartAdd
    \/ CbSelectSource
    \/ CbCancel
    \/ CbCancelOperation
    \/ SaveBegin
    \/ SaveEnter
    \/ SaveCollect
    \/ SaveFlood
    \/ SaveFinish
    \/ SaveError
    \/ SaveErrorReturn
    \/ SaveSetState
    \/ AddList
    \/ AddIgnored
    \/ AddPrepare
    \/ AddVerify
    \/ AddStart
    \/ BotAttempt
    \/ BotComplete
    \/ BotReport

ClearNext ==
    \/ ClearData
    \/ ExpireBackup
    \/ UndoClear

\* ------------------------------------------- bot: users other than ADMIN_ID
\* The commands with a handler that compares the sender with ADMIN_ID.
GuardedCommands == {"start", "save_members", "add_members", "list_sources",
                    "list_members", "status", "clear_data"}

\* A clear_data handler that lacks the comparison with ADMIN_ID.
StrangerCommandUnchecked ==
    /\ variant = "bot"
    /\ \E cmd \in GuardedCommands :
         /\ refused' = cmd
         /\ IF cmd = "clear_data"
              THEN /\ backup_source_groups' = source_groups
                   /\ backup_group_members' = group_members
                   /\ backup_ops' = ledger
                   /\ source_groups' = {}
                   /\ group_members' = <<>>
                   /\ ledger' = {}
              ELSE UNCHANGED <<backup_source_groups, backup_group_members,
                               backup_ops, source_groups, group_members, ledger>>
    /\ UNCHANGED <<variant, roster, environ, histVars, undo_outcome, runVars, nextId, user_state,
                   nextSrcId, timers, floods, clears, uiVars, saveVars>>

\* X.py:689-737 - a command of a user other than ADMIN_ID: every handler
\* replies "You are not authorized" and returns.
StrangerCommand ==
    /\ variant = "bot"
    /\ \E cmd \in GuardedCommands : refused' = cmd
    /\ UNCHANGED <<variant, roster, environ, histVars, undo_outcome, runVars, ledger, nextId, dbVars,
                   uiVars, saveVars>>

\* X.py:744-748 - a callback query of a user other than ADMIN_ID is
\* answered with an alert and dropped.
StrangerCallback ==
    /\ variant = "bot"
    /\ refused' = "callback"
    /\ UNCHANGED <<variant, roster, environ, histVars, undo_outcome, runVars, ledger, nextId, dbVars,
                   uiVars, saveVars>>

StrangerNext ==
    \/ StrangerCommand
    \/ StrangerCallback

\* ------------------------------------------------------ batch: history
\* Xx.py:178 - LIMIT 10.
HistoryLimit == 10

\* A row of transfer_sessions as the history command reads it.  started_at
\* is CURRENT_TIMESTAMP of the INSERT, in whole seconds.
Session(i, t) == [id |-> i, started_at |-> t]

\* Xx.py:36-47, 108-112 - the tables earlier runs can have left: the ids
\* grow with every INSERT, started_at never goes back, and at most
\* MaxPerSecond rows are inserted in one second.
InSecond(tbl, t) == Cardinality({i \in DOMAIN tbl : tbl[i].started_at = t})

LaterSeconds(tbl) ==
    IF tbl = <<>> THEN {1}
    ELSE LET last == tbl[Len(tbl)].started_at IN
         {t \in {last, last + 1} : InSecond(tbl, t) < MaxPerSecond}

RECURSIVE SessionTables(_)
SessionTables(n) ==
    IF n = 0 THEN {<<>>}
    ELSE LET shorter == SessionTables(n - 1)
             full == {q \in shorter : Len(q) = n - 1}
         IN shorter \cup
            UNION {{Append(q, Session(n, t)) : t \in LaterSeconds(q)} : q \in full}

\* ORDER BY started_at DESC: every order of the rows in which started_at
\* never grows.  The order of rows of one second is not specified.
RECURSIVE OrderByStartedDesc(_)
OrderByStartedDesc(rows) ==
    IF rows = {} THEN {<<>>}
    ELSE LET first == {r \in rows : \A o \in rows : r.started_at >= o.started_at}
         IN UNION {{<<r>> \o q : q \in OrderByStartedDesc(rows \ {r})} : r \in first}

\* ORDER BY started_at ASC.
RECURSIVE OrderByStartedAsc(_)
OrderByStartedAsc(rows) ==
    IF rows = {} THEN {<<>>}
    ELSE LET first == {r \in rows : \A o \in rows : r.started_at <= o.started_at}
         IN UNION {{<<r>> \o q : q \in OrderByStartedAsc(rows \ {r})} : r \in first}

\* LIMIT n
Limit(q, n) == SubSeq(q, 1, IF Len(q) < n THEN Len(q) ELSE n)

\* The history command reading the oldest rows first.
ShowHistoryOldestFirst ==
    /\ variant = "batch"
    /\ pc = "history"
    /\ \E q \in OrderByStartedAsc({sessions[i] : i \in DOMAIN sessions}) :
         listing' = Limit(q, HistoryLimit)
    /\ pc' = IF sessions = <<>> THEN "no_history" ELSE "listed"
    /\ UNCHANGED <<botVars, variant, roster, environ, sessions, refused, undo_outcome,
                   target_member, pos, members, total_count, index, success_count,
                   failed_count, session_id, last_call, added, ledger, nextId>>

\* Xx.py:170-198 - show_history: the SELECT, then either "No transfer
\* history found" or the printed table.
ShowHistory ==
    /\ variant = "batch"
    /\ pc = "history"
    /\ \E q \in OrderByStartedDesc({sessions[i] : i \in DOMAIN sessions}) :
         listing' = Limit(q, HistoryLimit)
    /\ pc' = IF sessions = <<>> THEN "no_history" ELSE "listed"
    /\ UNCHANGED <<botVars, variant, roster, environ, sessions, refused, undo_outcome,
                   target_member, pos, members, total_count, index, success_count,
                   failed_count, session_id, last_call, added, ledger, nextId>>

\* ------------------------------------------------------------- startup
\* Xx.py:222-239 - main: without both credentials it prints how to set them
\* and returns; else it goes on to the command.
BatchMain ==
    /\ variant = "batch"
    /\ pc = "off"
    /\ pc' = IF Credentials \subseteq environ THEN "start" ELSE "halted"
    /\ UNCHANGED <<variant, roster, environ, histVars, refused, undo_outcome, target_member, pos, members,
                   total_count, index, success_count, failed_count, session_id,
                   last_call, added, ledger, nextId, botVars>>

\* X.py:678-684, 846-848 - the module creates the Client, os.getenv giving
\* a built-in default for a credential that is not set, and runs it.
BotStartup ==
    /\ variant = "bot"
    /\ pc = "off"
    /\ pc' = "start"
    /\ UNCHANGED <<variant, roster, environ, histVars, refused, undo_outcome, target_member, pos, members,
                   total_count, index, success_count, failed_count, session_id,
                   last_call, added, ledger, nextId, botVars>>

StartupNext ==
    \/ BatchMain
    \/ BotStartup

\* ----------------------------------------------------------- specification
\* The fresh objects and empty tables of either program.
Objects ==
    /\ variant \in {"batch", "bot"}
    /\ refused = "none"
    /\ undo_outcome = "none"
    /\ listing = <<>>
    /\ target_member = NoMember
    /\ pos = 0
    /\ members = <<>>
    /\ total_count = 0
    /\ index = 0
    /\ success_count = 0
    /\ failed_count = 0
    /\ session_id = 0
    /\ last_call = NoCall
    /\ added = {}
    /\ ledger = {}
    /\ nextId = 1
    /\ user_state = NoState
    /\ source_groups = {}
    /\ nextSrcId = 1
    /\ group_members = <<>>
    /\ backup_source_groups = {}
    /\ backup_group_members = <<>>
    /\ backup_ops = {}
    /\ timers = 0
    /\ floods = 0
    /\ clears = 0
    /\ menu_buttons = FALSE
    /\ cancel_buttons = {}
    /\ select_buttons = {}
    /\ undo_button = FALSE
    /\ spc = "idle"
    /\ spos = 0
    /\ batch = <<>>
    /\ saved_count = 0
    /\ save_op = 0
    /\ save_db = 0
    /\ add_src = 0
    /\ member_count = 0

\* The state after construction, whatever the source group's roster is:
\* the process has its credentials and has started.
Constructed ==
    /\ pc = "start"
    /\ environ = Credentials
    /\ sessions = <<>>
    /\ Objects

Init == roster \in Rosters /\ Constructed

\* Both programs, the operator of the bot not using clear_data.
Next == BatchNext \/ BotNext

Spec == Init /\ [][Next]_vars

\* Both programs with clear_data, its expiry timer and undo_clear arriving at
\* any time, on rosters of plain accounts.
PlainRosters == { r \in Rosters : \A i \in DOMAIN r : BatchKeeps(r[i]) /\ ~r[i].is_self }

InitClear == Init /\ roster \in PlainRosters

NextClear == Next \/ ClearNext

SpecClear == InitClear /\ [][NextClear]_vars

\* Both programs on one roster of plain accounts that is longer than the
\* progress interval.
LongRosters == {[i \in 1..LongRoster |-> User(i, "human")]}

InitLong == roster \in LongRosters /\ Constructed

SpecLong == InitLong /\ [][Next]_vars

\* Both programs from the start of the process, in any environment, on
\* rosters of plain accounts.
InitEnv ==
    /\ roster \in PlainRosters
    /\ environ \in SUBSET Credentials
    /\ pc = "off"
    /\ sessions = <<>>
    /\ Objects

NextEnv == StartupNext \/ Next

SpecEnv == InitEnv /\ [][NextEnv]_vars

\* The batch script run with the command "history" (Xx.py:255-256) on the
\* tables earlier runs can have left.
InitHistory ==
    /\ roster = <<>>
    /\ environ = Credentials
    /\ pc = "history"
    /\ sessions \in SessionTables(MaxSessions)
    /\ Objects
    /\ variant = "batch"

NextHistory == ShowHistory

SpecHistory == InitHistory /\ [][NextHistory]_vars

\* Both programs, with users other than ADMIN_ID writing to the bot, on
\* rosters of plain accounts.
InitGuard == roster \in PlainRosters /\ Constructed

NextGuard == StrangerNext \/ Next

SpecGuard == InitGuard /\ [][NextGuard]_vars

\* ------------------------------------------------------------------ claims
Terminal == {"completed", "failed", "cancelled"}

\* A NULL counter counts as nothing transferred.
Counted(n) == IF n = NULL THEN 0 ELSE n

\* The run's own row of the ledger.
OwnRows == {r \in ledger : r.id = session_id}

\* C1 - after an add attempt that was rate-limited, the loop is still at the
\* same list position, so that the next attempt is for the same member.
C1_FloodRetriesSameMember ==
    last_call.result = "flood" => index = last_call.at

\* C2 - every row of the ledger has transferred + invited <= total_members
\* (no variant has an invited column: invited is 0).
C2_CountersWithinTotal ==
    \A r \in ledger : Counted(r.transferred) + 0 <= r.total_members

\* C3 - a row whose status is completed, failed or cancelled keeps that
\* status in every later step.
C3_TerminalStatusIsFinal ==
    [][\A r \in ledger : \A t \in ledger' :
         (r.status \in Terminal /\ t.id = r.id) => t.status = r.status]_vars

\* Every row the database holds, in the ledger or in its backup.
StoredRows == ledger \cup backup_ops

\* C4 - no row that is completed, failed or cancelled has status started in
\* the next state, whether it sits in the ledger or in the backup; and a row
\* that is new to the database carries an id no earlier row had, so that a
\* row once gone stays gone.
C4_NeverStartedAgain ==
    [][/\ \A r \in StoredRows : \A t \in StoredRows' :
            (r.status \in Terminal /\ t.id = r.id) => t.status # "started"
       /\ \A t \in StoredRows' :
            (t.id \notin {r.id : r \in StoredRows}) => t.id >= nextId
       /\ nextId' >= nextId]_vars

\* C4 witness - a run has completed although its own row says started, next
\* to a terminal row: the rows were cleared under the running loop, and
\* undo_clear brought them back.
C4_Witness ==
    /\ pc = "completed"
    /\ \E r \in OwnRows : r.status = "started"
    /\ \E t \in ledger : t.status \in Terminal

\* C5 - no add_chat_members call of a run is for a user that an earlier call
\* of the same run has added.
C5_AddedNeverAttemptedAgain ==
    [][(last_call' # last_call /\ last_call'.result # "none")
         => last_call'.user \notin added]_vars

\* The roster members the collector is to keep.
Transferable ==
    {roster[i].id : i \in {j \in DOMAIN roster :
        ~roster[j].is_bot /\ ~roster[j].is_deleted /\ ~roster[j].is_self}}

\* C6 - once the collection is complete, its output is exactly the roster
\* without bots, deleted accounts and the operator's own account.
C6_CollectorOutput ==
    /\ (variant = "batch" /\ pc \in {"loop", "empty", "completed", "aborted"})
         => {members[i] : i \in DOMAIN members} = Transferable
    /\ (variant = "bot" /\ spc = "done"
          /\ \E r \in ledger : r.id = save_op /\ r.status = "completed")
         => {group_members[i].user : i \in DOMAIN group_members} = Transferable

\* C7 - a run that the permission check has denied has enumerated nothing,
\* called add_chat_members for nobody and has no session row; and no step of
\* the run from the start of the command to the denial INSERTs a ledger row.
C7_DeniedBeforeAnything ==
    /\ [](pc = "denied" =>
            /\ pos = 0 /\ members = <<>>
            /\ last_call = NoCall /\ added = {}
            /\ session_id = 0)
    /\ [][(pc' # pc /\ pc' \in {"prepared", "checking", "denied"}) =>
            /\ {t.id : t \in ledger'} \subseteq {r.id : r \in ledger}
            /\ nextId' = nextId]_vars

\* C7 witness - a denied run, with rows of earlier commands in the ledger.
C7_Witness == pc = "denied" /\ ledger # {}

\* The add-members capability: the owner, or an admin with the permission flag.
Capable(m) ==
    m.status = "creator" \/ (m.status = "administrator" /\ m.can_invite)

\* C8 - the check lets the run go on exactly when the operator is capable.
C8_CheckGrantsExactlyCapable ==
    [][pc = "checking" => ((pc' # "denied") <=> Capable(target_member))]_vars

\* C9 - a run that has ended after its session row was created has attempted
\* the whole list: its latest attempt was for the last member.
C9_LoopReachesEveryMember ==
    (pc \in {"completed", "aborted"} /\ members # <<>>)
      => last_call.at = Len(members) - 1 /\ last_call.result # "none"

\* C10 - a run aborted by an unexpected error leaves its session failed.
C10_AbortedRunMarkedFailed ==
    pc = "aborted" => \A r \in OwnRows : r.status = "failed"

\* C11 - when the loop has left behind a multiple of five list positions,
\* and when the run has completed, the run's row holds the number of
\* successful adds made so far.
C11_ProgressEveryFifthAttempt ==
    \/ pc = "loop" /\ index > 0 /\ index % ProgressEvery = 0
    \/ pc \in {"reporting", "completed"}
    => \A r \in OwnRows : Counted(r.transferred) = success_count

\* The step sets the status of row id to cancelled.
Cancels(id) ==
    \E r \in ledger : \E t \in ledger' :
        r.id = id /\ t.id = id /\ r.status # "cancelled" /\ t.status = "cancelled"

\* C12 - a step that cancels an operation changes the status column of that
\* row and nothing else: every other column and every other row of the
\* ledger, the saved roster, and the counters, list and position of the
\* running loops stay as they are; and a loop with members left can take
\* its next turn whatever the status of its row is.
C12_CancelChangesStatusOnly ==
    /\ [][\A id \in {r.id : r \in ledger} : Cancels(id) =>
            /\ ledger' = {IF r.id = id THEN [r EXCEPT !.status = "cancelled"]
                                       ELSE r : r \in ledger}
            /\ UNCHANGED <<runVars, saveVars, source_groups, group_members,
                           user_state>>]_vars
    /\ []((variant = "bot" /\ pc = "loop" /\ index < Len(members))
            => ENABLED BotAttempt)
    /\ []((variant = "bot" /\ spc = "collect" /\ spos < Len(roster))
            => ENABLED SaveCollect)

\* C12 witness - the add loop is in flight with members left, after some
\* successful adds, and its row has been cancelled.
C12_Witness ==
    /\ variant = "bot" /\ pc = "loop"
    /\ 0 < success_count /\ index < Len(members)
    /\ \E r \in OwnRows : r.status = "cancelled" /\ r.transferred = success_count

\* C13 - when the collection of the current save has failed and the command
\* has gone on, the source has no saved roster (no row of group_members, a
\* member_count of 0) and the operator is not in state source_saved for it.
C13_FailedCollectionKeepsNothing ==
    (variant = "bot" /\ spc \in {"saved", "done"}
       /\ \E r \in ledger : r.id = save_op /\ r.status = "failed")
    => /\ MembersOf(save_db) = <<>>
       /\ \A g \in source_groups : g.id = save_db => g.member_count = 0
       /\ ~(user_state.state = "source_saved" /\ user_state.source_id = save_db)

\* C14 - an add attempt that ends with the privacy restriction does not
\* count the member as failed (it is invited instead); and a completed run
\* over two members, the first added and the second privacy-restricted,
\* reports 1 added and 0 failed.
C14_PrivacyRestrictedIsInvited ==
    /\ [][(last_call' # last_call /\ last_call'.result = "privacy")
            => failed_count' = failed_count]_vars
    /\ []((variant = "batch" /\ pc = "completed" /\ Len(members) = 2
             /\ added = {members[1]} /\ last_call.result = "privacy")
            => success_count = 1 /\ failed_count = 0)

\* The failures the final summary of a run reports: Xx.py:163 prints
\* failed_count, X.py:456 prints member_count - success_count.
ReportedFailed ==
    IF variant = "batch" THEN failed_count ELSE member_count - success_count

\* C15 - a completed run whose last attempt was rate-limited and whose other
\* attempts all succeeded reports no failed member.
C15_RateLimitNotReportedFailed ==
    (pc = "completed" /\ members # <<>> /\ last_call.result = "flood"
       /\ success_count = Len(members) - 1)
    => ReportedFailed = 0

\* The three tables clear_data empties, and their backups.
Tables == <<source_groups, group_members, ledger>>
Backups == <<backup_source_groups, backup_group_members, backup_ops>>
Emptied == <<{}, <<>>, {}>>

\* A step of clear_data_command, and a step of undo_clear that finds rows
\* to move.
ClearStep == clears' = clears + 1
UndoStep ==
    undo_button /\ timers' = timers /\ clears' = clears /\ Backups' # Backups

\* C16 - clear_data moves exactly the rows of the three tables into the
\* backup and leaves the tables empty; undo_clear, finding the tables as the
\* clear left them, gives the tables exactly the rows of the backup and
\* leaves the backup empty.
C16_ClearUndoRoundTrip ==
    /\ [][ClearStep => Backups' = Tables /\ Tables' = Emptied]_vars
    /\ [][(UndoStep /\ Tables = Emptied)
            => Tables' = Backups /\ Backups' = Emptied]_vars

\* C16 witness - a clear has moved rows of all three tables into the
\* backup, no timer has expired and nothing has been written since.
C16_Witness ==
    /\ undo_button /\ timers = clears
    /\ Tables = Emptied
    /\ backup_source_groups # {} /\ backup_group_members # <<>> /\ backup_ops # {}

\* C17 - the backup a clear has written stays until that clear's own timer
\* ends.  Every timer sleeps the same 300 s, so that of two pending timers
\* the one that ends first belongs to the earlier clear: a timer that ends
\* while another is pending leaves the backup alone, and a clear that comes
\* while a timer is pending leaves the rows of the backup restorable.
C17_BackupKeptForItsWindow ==
    /\ [][(timers' = timers - 1 /\ timers' > 0) => Backups' = Backups]_vars
    /\ [][(ClearStep /\ timers > 0) =>
            /\ backup_source_groups \subseteq backup_source_groups'
            /\ backup_ops \subseteq backup_ops'
            /\ \A i \in DOMAIN backup_group_members :
                 \E j \in DOMAIN backup_group_members' :
                     backup_group_members'[j] = backup_group_members[i]]_vars

\* C18 - a process that lacks one of the two credentials never gets past
\* its startup: it creates no client and takes no command.
C18_NoCredentialsNoStart ==
    environ # Credentials => pc \in {"off", "halted"}

\* C19 - a step that ends a command because the source or the target could
\* not be resolved writes nothing: the ledger, its id sequence and the saved
\* roster stay as they are; and the run so ended has enumerated nothing,
\* attempted no add and has no session.
C19_UnresolvedWritesNothing ==
    /\ [][(\/ pc' # pc /\ pc' \in {"no_source", "no_target", "invalid_source"}
           \/ spc' # spc /\ spc' = "no_access")
            => /\ ledger' = ledger /\ nextId' = nextId
               /\ group_members' = group_members
               /\ source_groups' = source_groups]_vars
    /\ [](pc \in {"no_source", "no_target", "invalid_source"} =>
            /\ pos = 0 /\ members = <<>>
            /\ last_call = NoCall /\ added = {}
            /\ session_id = 0)

\* C19 witness - an add command has ended on an unresolved target, with a
\* saved roster and ledger rows in the database.
C19_Witness ==
    /\ variant = "bot" /\ pc = "no_target"
    /\ group_members # <<>> /\ ledger # {}

\* C20 - the status of every row of the ledger is one of started,
\* completed, failed, cancelled.
C20_StatusDomain ==
    \A r \in ledger : r.status \in {"started", "completed", "failed", "cancelled"}

\* The transferred column of the run's row, where the row is in the ledger.
OwnTransferred == {Counted(r.transferred) : r \in OwnRows}

\* C21 - while a run goes on, its success count and the transferred column
\* of its row never decrease; and a step whose add attempt was rate-limited
\* leaves both as they are.
C21_CountersNeverDecrease ==
    /\ [][(session_id # 0 /\ session_id' = session_id) =>
            /\ success_count' >= success_count
            /\ \A n \in OwnTransferred : \A m \in OwnTransferred' : m >= n]_vars
    /\ [][(last_call' # last_call /\ last_call'.result = "flood") =>
            /\ success_count' = success_count
            /\ OwnTransferred' = OwnTransferred]_vars

\* C21 witness - the latest attempt of a run was rate-limited after earlier
\* adds had succeeded and had been written to the run's row.
C21_Witness ==
    /\ pc = "loop"
    /\ last_call.result = "flood" /\ success_count > 0
    /\ \E r \in OwnRows : r.transferred = success_count

\* The operator has been told to enter `.add_members <target>`: by the
\* message that closes a save (X.py:235-249, state source_saved), by the
\* Add Members button or by the choice of a source (state awaiting_target).
ToldToAdd == user_state.state \in {"source_saved", "awaiting_target"}

\* C22 - when the operator, told to enter it, sends `.add_members <target>`
\* while a source with members is saved, the command goes on to the target;
\* and with the operator admin of the target the command INSERTs a row with
\* status started.
C22_AddAfterPromptStarts ==
    /\ [][(/\ variant = "bot" /\ Quiet /\ ToldToAdd
           /\ \E g \in source_groups : g.member_count > 0
           /\ pc' # pc)
            => pc' = "prepared"]_vars
    /\ [][(variant = "bot" /\ pc = "checking" /\ IsAdmin(target_member)) =>
            \E t \in ledger' :
                /\ t.id = session_id' /\ t.status = "started"
                /\ t.id \notin {r.id : r \in ledger}]_vars

\* A step that makes an add_chat_members call of the run.  The call and its
\* return or raise are one step: the loop awaits every call.
AttemptStep == last_call' # last_call /\ last_call'.result # "none"

\* C23 - every attempt of a run is for the one member at the loop's
\* position, the loop moves on by at most that one position, and the
\* attempt that follows another of the run is for the next position.
C23_OneAtATimeInOrder ==
    [][AttemptStep =>
         /\ last_call'.at = index
         /\ last_call'.user = members[index + 1]
         /\ index' \in {index, index + 1}
         /\ members' = members
         /\ last_call.result # "none" => last_call'.at = last_call.at + 1]_vars

\* C23 witness - a run has made its attempt for the second member of a list
\* of at least two.
C23_Witness ==
    /\ pc = "loop" /\ Len(members) >= 2
    /\ last_call.result # "none" /\ last_call.at = 1

\* C24 - an attempt that follows another attempt of the run comes after a
\* sleep: the iteration of the earlier attempt has slept.
C24_EveryAttemptThrottled ==
    [][(AttemptStep /\ last_call.result # "none")
         => SleepsAfter(last_call.result)]_vars

\* C25 - when a collection that a flood wait had interrupted has returned
\* without an error, the saved roster of the source holds every non-bot
\* member of the roster exactly once and nothing else, and the returned
\* count is the number of its rows.
C25_RestartLeavesNoDuplicates ==
    (/\ variant = "bot" /\ spc \in {"saved", "done"} /\ floods > 0
     /\ \E r \in ledger : r.id = save_op /\ r.status = "completed")
    => LET rows == MembersOf(save_db) IN
       /\ \A i \in DOMAIN roster : SaveKeeps(roster[i]) =>
              Cardinality({j \in DOMAIN rows : rows[j] = roster[i].id}) = 1
       /\ \A j \in DOMAIN rows :
              \E i \in DOMAIN roster : SaveKeeps(roster[i]) /\ rows[j] = roster[i].id
       /\ saved_count = Len(rows)

\* C26 - from the creation of its session row on, a run enumerates no
\* roster entry, its list stays the same and the total_members of its row
\* stays what the INSERT wrote: the length of the list.
C26_MemberListIsSnapshot ==
    /\ [][(session_id # 0 /\ session_id' = session_id) =>
            /\ members' = members /\ pos' = pos
            /\ \A r \in OwnRows : \A t \in OwnRows' :
                 t.total_members = r.total_members]_vars
    /\ [](\A r \in OwnRows : r.total_members = Len(members))

\* C26 witness - a run with a session row has gone through part of a list
\* of at least two members.
C26_Witness ==
    /\ pc = "loop" /\ index >= 1 /\ Len(members) >= 2
    /\ \E r \in OwnRows : r.total_members = Len(members) /\ r.transferred >= 1

\* C27 - a step that handles a command or a callback of a user other than
\* ADMIN_ID leaves every table as it is and makes no platform call for the
\* programs' work: no add attempt, no enumeration, no move of a command.
C27_StrangersChangeNothing ==
    [][refused' # refused =>
         UNCHANGED <<user_state, source_groups, group_members, ledger,
                     backup_source_groups, backup_group_members, backup_ops,
                     nextId, nextSrcId, timers, last_call, added, pos, spos,
                     pc, spc>>]_vars

\* C27 witness - a clear_data command of another user has been refused
\* while the tables hold rows and an add loop is in flight.
C27_Witness ==
    /\ refused = "clear_data" /\ pc = "loop"
    /\ source_groups # {} /\ group_members # <<>> /\ ledger # {}

\* C28 - the loop makes at most one attempt for each member of the list;
\* and a run that has ended with the loop gone through the whole list has
\* its row completed, with completed_at set and the number of successful
\* adds in the transferred column.
C28_RunEndsCompleted ==
    /\ index <= Len(members)
    /\ (pc \in {"completed", "aborted"} /\ session_id # 0 /\ index = Len(members))
         => \A r \in OwnRows :
               /\ r.status = "completed" /\ r.completed_at
               /\ r.transferred = success_count

\* C29 - in the batch variant, when the run has completed, the members
\* counted as added and the members counted as failed make up the whole
\* collected list.
C29_CountersAddUp ==
    (variant = "batch" /\ pc = "completed")
        => success_count + failed_count = total_count

\* C30 - once save_members_command has written member_count for the source
\* it collected, that member_count is the number of group_members rows of
\* the source, also when a flood wait or an error interrupted the collection.
C30_MemberCountIsRowCount ==
    (variant = "bot" /\ spc \in {"saved", "done"})
        => \A g \in source_groups :
              g.id = save_db => g.member_count = Len(MembersOf(g.id))

\* C31 - no step inserts a row with status "started" and total_members 0:
\* a run with nothing to transfer creates no session.
C31_NoEmptySession ==
    [][\A t \in ledger' :
          (t.id \notin {r.id : r \in ledger} /\ t.status = "started")
              => t.total_members > 0]_vars

\* A step of undo_clear that ends in an error.
UndoRaisedStep == undo_outcome' = "raised" /\ undo_outcome # "raised"

\* C32 - an undo_clear that runs while the backup holds rows, whatever the
\* tables hold by then, leaves in the tables every row of the backup and
\* every row the tables held, and leaves the backup empty.
C32_UndoRestoresAfterWrites ==
    [][((UndoStep \/ UndoRaisedStep) /\ Backups # Emptied) =>
          /\ Tables' = Restored(Tables, Backups)
          /\ Backups' = Emptied]_vars

\* C33 - an undo_clear that has restored rows leaves the backup empty, so
\* that one more undo_clear raises nothing and inserts nothing: the tables
\* and the backup are the same after two runs as after one.  An undo_clear
\* that finds the backup empty or expired leaves the tables as they are.
C33_UndoIdempotent ==
    /\ [][UndoStep =>
            /\ Backups' = Emptied
            /\ ~UndoRaises'
            /\ Restored(Tables', Backups') = Tables']_vars
    /\ []((undo_button /\ Backups = Emptied) =>
            ~UndoRaises /\ Restored(Tables, Backups) = Tables)

\* C33 witness - an undo has restored rows of all three tables and the
\* button can be pressed once more.
C33_Witness ==
    /\ undo_button /\ undo_outcome = "restored"
    /\ Backups = Emptied
    /\ source_groups # {} /\ group_members # <<>> /\ ledger # {}

\* The rows of transfer_sessions.
SessionRows == {sessions[i] : i \in DOMAIN sessions}

\* C34 - the history command fetches min(10, n) of the n rows, in an order
\* in which started_at never grows, no row twice, no fetched row started
\* before a row that was left out; and it leaves every row as it was.
C34_HistoryListsLatestTen ==
    /\ [](pc \in {"listed", "no_history"} =>
            LET fetched == {listing[i] : i \in DOMAIN listing} IN
            /\ Len(listing) = IF Len(sessions) < 10 THEN Len(sessions) ELSE 10
            /\ fetched \subseteq SessionRows
            /\ Cardinality(fetched) = Len(listing)
            /\ \A i \in DOMAIN listing : \A j \in DOMAIN listing :
                  i < j => listing[i].started_at >= listing[j].started_at
            /\ \A r \in fetched : \A o \in SessionRows \ fetched :
                  r.started_at >= o.started_at)
    /\ [][sessions' = sessions /\ ledger' = ledger]_<<pc, listing>>

\* C34 witness - the command has run on a table of more than ten rows, two
\* of them started in the same second: ten rows are fetched.
C34_Witness ==
    /\ pc = "listed" /\ Len(sessions) > 10 /\ Len(listing) = 10
    /\ \E r \in SessionRows : \E o \in SessionRows :
          r.id # o.id /\ r.started_at = o.started_at

=============================================================================
